---- MODULE Spec2Model ----
(***************************************************************************)
(* Model of src/lib/actions/question.action.ts: the server actions that    *)
(* create, vote on, edit and delete questions over a document store with   *)
(* the collections Question, Tag, User, Interaction and Answer.            *)
(*                                                                         *)
(* Spec      every handler is one atomic action (calls run one after the   *)
(*           other); a store call of a handler may fail.                   *)
(* SpecConc  createQuestion and the two vote handlers run as processes     *)
(*           that interleave at the granularity of one awaited store call. *)
(***************************************************************************)
EXTENDS Integers, Sequences, FiniteSets, TLC

\* ------------------------------------------------------------- bounds
\* Votes, edits and deletes address the question ids 1..MaxQ, and Spec creates
\* questions up to that id (ids are handed out in order, never reused).
MaxQ == 2
\* Longest tag-name sequence given to createQuestion.
MaxTags == 2
\* Number of handler calls in a run (reputation and $push grow without bound).
MaxCalls == 2
\* Number of calls that may be in flight at once in SpecConc.
MaxProcs == 2

\* ------------------------------------------------------------- inputs
Users == {"u1", "u2"}
QIds == 1..MaxQ
Titles == {"t1", "t2"}
Contents == {"c1", "c2"}
\* Tag names are sequences of characters: letters in both cases and "+",
\* which is an ordinary character of a name and a quantifier of a RegExp.
TagNames == {<<"a">>, <<"A">>, <<"a", "+">>, <<"+">>}
TagLists == UNION {[1..n -> TagNames] : n \in 1..MaxTags}

VARIABLES
    db,          \* the document store: questions, tags, reputation, answers, interactions, nextQ
    revalidated, \* number of revalidatePath signals sent so far
    last,        \* the last completed call of Spec: inputs, outcome, the state before it
    calls,       \* number of calls started so far
    truthful,    \* every vote call so far carried flags equal to the stored membership
    procs        \* SpecConc: the calls in flight

vars == <<db, revalidated, last, calls, truthful, procs>>

\* ------------------------------------------------------------- arrays
Range(s) == {s[i] : i \in 1..Len(s)}

Count(s, x) == Cardinality({i \in 1..Len(s) : s[i] = x})

\* $pull: every occurrence of x leaves the array.
Pull(arr, x) == SelectSeq(arr, LAMBDA e : e # x)

\* $push: x is appended, whether or not it is there already.
Push(arr, x) == Append(arr, x)

\* $addToSet: x is appended only when absent.
AddToSet(arr, x) == IF x \in Range(arr) THEN arr ELSE Append(arr, x)

\* One operator of an update document applied to a document. A path the
\* document does not have (the "downvote" of line 163) matches nothing.
ApplyOp(doc, o) ==
    IF o.field \notin DOMAIN doc THEN doc
    ELSE [doc EXCEPT ![o.field] =
            CASE o.op = "$pull" -> Pull(@, o.value)
              [] o.op = "$push" -> Push(@, o.value)
              [] o.op = "$addToSet" -> AddToSet(@, o.value)]

RECURSIVE ApplyUpdate(_, _)
ApplyUpdate(doc, update) ==
    IF update = <<>> THEN doc
    ELSE ApplyUpdate(ApplyOp(doc, Head(update)), Tail(update))

\* Question.findByIdAndUpdate(questionId, updateQuery): no document, no write.
FindByIdAndUpdate(d, q, update) ==
    IF q \notin DOMAIN d.questions THEN d
    ELSE [d EXCEPT !.questions[q] = ApplyUpdate(@, update)]

\* User.findByIdAndUpdate(id, { $inc: { reputation: n } })
IncReputation(d, u, n) == [d EXCEPT !.reputation[u] = @ + n]

\* ------------------------------------------------------------- RegExp
\* new RegExp(`^${tag}$`, "i"): the name is spliced into the pattern as it
\* is. A "+" with nothing to repeat is a SyntaxError.
Lower(c) == IF c = "A" THEN "a" ELSE c

ValidPattern(p) ==
    \A k \in 1..Len(p) : p[k] = "+" => (k > 1 /\ p[k - 1] # "+")

\* Whether ^p$ (flag i) matches the whole of s: p[k..] against s[j..].
RECURSIVE MatchFrom(_, _, _, _)
MatchFrom(p, k, s, j) ==
    IF k > Len(p) THEN j > Len(s)
    ELSE IF j > Len(s) THEN FALSE
    ELSE IF Lower(p[k]) # Lower(s[j]) THEN FALSE
    ELSE IF k < Len(p) /\ p[k + 1] = "+"
         THEN MatchFrom(p, k, s, j + 1) \/ MatchFrom(p, k + 2, s, j + 1)
         ELSE MatchFrom(p, k + 1, s, j + 1)

RegExpTest(p, s) == MatchFrom(p, 1, s, 1)

\* ------------------------------------------------------------- createQuestion
\* Question.create({ title, content, author }): arrays start empty.
NewQuestion(title, content, author) ==
    [title |-> title, content |-> content, author |-> author,
     tags |-> <<>>, upvotes |-> <<>>, downvotes |-> <<>>]

QuestionCreate(d, title, content, author) ==
    [d EXCEPT !.questions = [i \in DOMAIN @ \cup {d.nextQ} |->
                                IF i = d.nextQ THEN NewQuestion(title, content, author) ELSE @[i]],
              !.nextQ = @ + 1]

\* The Tag documents whose name the pattern matches, in natural order.
MatchingTags(d, name) ==
    {t \in 1..Len(d.tags) : RegExpTest(name, d.tags[t].name)}

Min(S) == CHOOSE x \in S : \A y \in S : x <= y

\* Tag.findOneAndUpdate(filter, { $setOnInsert, $push }, { upsert, new }):
\* one atomic store step; the id of the document it updated or inserted.
UpsertTagId(d, name) ==
    IF MatchingTags(d, name) # {} THEN Min(MatchingTags(d, name)) ELSE Len(d.tags) + 1

UpsertTag(d, name, q) ==
    IF MatchingTags(d, name) # {}
    THEN [d EXCEPT !.tags[Min(MatchingTags(d, name))].questions = Push(@, q)]
    ELSE [d EXCEPT !.tags = Append(@, [name |-> name, questions |-> <<q>>])]

\* Question.findByIdAndUpdate(question._id, { $push: { tags: { $each } } })
PushTags(d, q, tagDocuments) ==
    IF q \notin DOMAIN d.questions THEN d
    ELSE [d EXCEPT !.questions[q].tags = @ \o tagDocuments]

InteractionCreate(d, author, q, tagDocuments) ==
    [d EXCEPT !.interactions = @ \cup
        {[user |-> author, action |-> "ask_question", question |-> q, tags |-> tagDocuments]}]

\* What a handler leaves behind: the store, whether revalidatePath ran, how
\* the call ended for its caller, and the store call that failed (0: none).
Ended(d, sent, outcome, step) ==
    [db |-> d, sent |-> sent, outcome |-> outcome, failedStep |-> step]

\* The for loop of lines 75-82 from its i-th name on; store call number
\* 1 + i is the upsert of names[i].
RECURSIVE TagLoop(_, _, _, _, _, _)
TagLoop(d, q, names, i, tagDocuments, failAt) ==
    IF i > Len(names) THEN [db |-> d, tagDocuments |-> tagDocuments, failedStep |-> 0]
    ELSE IF ~ValidPattern(names[i]) \/ failAt = 1 + i
         THEN [db |-> d, tagDocuments |-> tagDocuments, failedStep |-> 1 + i]
         ELSE TagLoop(UpsertTag(d, names[i], q), q, names, i + 1,
                      Append(tagDocuments, UpsertTagId(d, names[i])), failAt)

\* Mutant: createQuestion rethrows as the vote handlers do.
CreateCatchRethrow(d, step) == Ended(d, FALSE, "raised", step)

\* catch (error) { console.error(error); } : the caller sees a normal return.
CreateCatch(d, step) == Ended(d, FALSE, "returned", step)

createQuestion(d, title, content, names, author, failAt) ==
    LET n == Len(names)
        q == d.nextQ
        d1 == QuestionCreate(d, title, content, author)
        loop == TagLoop(d1, q, names, 1, <<>>, failAt)
        d3 == PushTags(loop.db, q, loop.tagDocuments)
        d4 == InteractionCreate(d3, author, q, loop.tagDocuments)
        d5 == IncReputation(d4, author, 5)
    IN  IF failAt = 1 THEN CreateCatch(d, 1)
        ELSE IF loop.failedStep # 0 THEN CreateCatch(loop.db, loop.failedStep)
        ELSE IF failAt = n + 2 THEN CreateCatch(loop.db, n + 2)
        ELSE IF failAt = n + 3 THEN CreateCatch(d3, n + 3)
        ELSE IF failAt = n + 4 THEN CreateCatch(d4, n + 4)
        ELSE Ended(d5, TRUE, "returned", 0)

\* ------------------------------------------------------------- votes
Op(op, field, value) == [op |-> op, field |-> field, value |-> value]

\* Mutant: the switch branch pushes to upvotes and forgets the $pull.
UpvoteQueryNoPull(userId, hasAlreadyUpvoted, hasAlreadyDownvoted) ==
    IF hasAlreadyUpvoted THEN <<Op("$pull", "upvotes", userId)>>
    ELSE IF hasAlreadyDownvoted THEN <<Op("$push", "upvotes", userId)>>
         ELSE <<Op("$addToSet", "upvotes", userId)>>

UpvoteQuery(userId, hasAlreadyUpvoted, hasAlreadyDownvoted) ==
    IF hasAlreadyUpvoted THEN <<Op("$pull", "upvotes", userId)>>
    ELSE IF hasAlreadyDownvoted
         THEN <<Op("$pull", "downvotes", userId), Op("$push", "upvotes", userId)>>
         ELSE <<Op("$addToSet", "upvotes", userId)>>

DownvoteQuery(userId, hasAlreadyUpvoted, hasAlreadyDownvoted) ==
    IF hasAlreadyDownvoted THEN <<Op("$pull", "downvote", userId)>>
    ELSE IF hasAlreadyUpvoted
         THEN <<Op("$pull", "upvotes", userId), Op("$push", "downvotes", userId)>>
         ELSE <<Op("$addToSet", "downvotes", userId)>>

\* Mutant: the voter's amount is 1, as the comment of line 141 has it.
VoterDeltaByOne(alreadySame) == IF alreadySame THEN -1 ELSE 1

\* $inc of the voter and of the author: the sign follows the flag of the
\* handler's own direction only.
VoterDelta(alreadySame) == IF alreadySame THEN -2 ELSE 2
AuthorDelta(alreadySame) == IF alreadySame THEN -10 ELSE 10

\* Mutant: the vote handlers swallow the error as createQuestion does.
VoteCatchSwallow(d, step) == Ended(d, FALSE, "returned", step)

\* catch (error) { console.error(error); throw error; }
VoteCatch(d, step) == Ended(d, FALSE, "raised", step)

\* The body shared by the two handlers after updateQuery is built.
VoteBody(d, q, u, update, alreadySame, failAt) ==
    LET d1 == FindByIdAndUpdate(d, q, update)
        d2 == IncReputation(d1, u, VoterDelta(alreadySame))
        d3 == IncReputation(d2, d1.questions[q].author, AuthorDelta(alreadySame))
    IN  IF failAt = 1 THEN VoteCatch(d, 1)
        ELSE IF q \notin DOMAIN d.questions THEN VoteCatch(d, 0)
        ELSE IF failAt = 2 THEN VoteCatch(d1, 2)
        ELSE IF failAt = 3 THEN VoteCatch(d2, 3)
        ELSE Ended(d3, TRUE, "returned", 0)

\* Mutant: the sign follows either flag, so a switch is paid as a removal.
upvoteQuestionSignOfEitherFlag(d, q, u, hu, hd, failAt) ==
    VoteBody(d, q, u, UpvoteQuery(u, hu, hd), hu \/ hd, failAt)

upvoteQuestion(d, q, u, hu, hd, failAt) ==
    VoteBody(d, q, u, UpvoteQuery(u, hu, hd), hu, failAt)

downvoteQuestion(d, q, u, hu, hd, failAt) ==
    VoteBody(d, q, u, DownvoteQuery(u, hu, hd), hd, failAt)

\* ------------------------------------------------------------- deleteQuestion
QuestionDeleteOne(d, q) ==
    [d EXCEPT !.questions = [i \in DOMAIN @ \ {q} |-> @[i]]]

AnswerDeleteMany(d, q) ==
    [d EXCEPT !.answers = {a \in @ : a.question # q}]

InteractionDeleteMany(d, q) ==
    [d EXCEPT !.interactions = {x \in @ : x.question # q}]

\* Mutant: updateOne in place of updateMany: only the first Tag that lists
\* the question lets go of it.
TagPullQuestionOne(d, q) ==
    LET listing == {t \in DOMAIN d.tags : q \in Range(d.tags[t].questions)}
    IN  IF listing = {} THEN d
        ELSE [d EXCEPT !.tags[Min(listing)].questions = Pull(@, q)]

\* Tag.updateMany({ questions: q }, { $pull: { questions: q } })
TagPullQuestion(d, q) ==
    [d EXCEPT !.tags = [t \in DOMAIN @ |-> [@[t] EXCEPT !.questions = Pull(@, q)]]]

DeleteCatch(d, step) == Ended(d, FALSE, "returned", step)

deleteQuestion(d, q, failAt) ==
    LET d2 == QuestionDeleteOne(d, q)
        d3 == AnswerDeleteMany(d2, q)
        d4 == InteractionDeleteMany(d3, q)
        d5 == TagPullQuestion(d4, q)
    IN  IF failAt = 1 THEN DeleteCatch(d, 1)
        ELSE IF failAt = 2 THEN DeleteCatch(d, 2)
        ELSE IF failAt = 3 THEN DeleteCatch(d2, 3)
        ELSE IF failAt = 4 THEN DeleteCatch(d3, 4)
        ELSE IF failAt = 5 THEN DeleteCatch(d4, 5)
        \* question.author of null: a TypeError before the sixth store call
        ELSE IF q \notin DOMAIN d.questions THEN DeleteCatch(d5, 6)
        ELSE IF failAt = 6 THEN DeleteCatch(d5, 6)
        ELSE Ended(IncReputation(d5, d.questions[q].author, -5), TRUE, "returned", 0)

\* ------------------------------------------------------------- editQuestion
QuestionSave(d, q, title, content) ==
    [d EXCEPT !.questions[q].title = title, !.questions[q].content = content]

EditCatch(d, step) == Ended(d, FALSE, "returned", step)

editQuestion(d, q, title, content, failAt) ==
    IF failAt = 1 THEN EditCatch(d, 1)
    \* throw new Error("Question not found"), caught by the handler itself
    ELSE IF q \notin DOMAIN d.questions THEN EditCatch(d, 2)
    ELSE IF failAt = 2 THEN EditCatch(d, 2)
    ELSE Ended(QuestionSave(d, q, title, content), TRUE, "returned", 0)

\* ------------------------------------------------------------- state
\* The store when the model starts: one question of u1 carrying tag "b",
\* its ask_question interaction and one answer; nobody has voted.
InitDb ==
    [questions |-> (1 :> [title |-> "t1", content |-> "c1", author |-> "u1",
                          tags |-> <<1>>, upvotes |-> <<>>, downvotes |-> <<>>]),
     tags |-> <<[name |-> <<"b">>, questions |-> <<1>>]>>,
     reputation |-> [u \in Users |-> 0],
     answers |-> {[id |-> "ans1", question |-> 1]},
     interactions |-> {[user |-> "u1", action |-> "ask_question",
                        question |-> 1, tags |-> <<1>>]},
     nextQ |-> 2]

NoCall ==
    [op |-> "none", q |-> 0, u |-> "u1", hu |-> FALSE, hd |-> FALSE,
     names |-> <<>>, title |-> "t1", content |-> "c1", failAt |-> 0,
     outcome |-> "returned", failedStep |-> 0, pre |-> InitDb, preSignals |-> 0]

Idle ==
    [op |-> "none", pc |-> "idle", q |-> 0, u |-> "u1", hu |-> FALSE, hd |-> FALSE,
     names |-> <<>>, i |-> 0, tagDocuments |-> <<>>, author |-> "u1",
     outcome |-> "none", startTrue |-> FALSE, peer |-> 0]

Init ==
    /\ db = InitDb
    /\ revalidated = 0
    /\ last = NoCall
    /\ calls = 0
    /\ truthful = TRUE
    /\ procs = [p \in 1..MaxProcs |-> Idle]

\* Whether the flags of a vote call equal the stored membership.
FlagsTrue(d, q, u, hu, hd) ==
    q \in DOMAIN d.questions =>
        /\ hu = (u \in Range(d.questions[q].upvotes))
        /\ hd = (u \in Range(d.questions[q].downvotes))

\* A call of Spec has run to its end with result r.
Finish(call, r) ==
    /\ calls < MaxCalls
    /\ db' = r.db
    /\ revalidated' = revalidated + (IF r.sent THEN 1 ELSE 0)
    /\ last' = [call EXCEPT !.outcome = r.outcome, !.failedStep = r.failedStep,
                            !.pre = db, !.preSignals = revalidated]
    /\ calls' = calls + 1
    /\ UNCHANGED procs

CreateQuestion ==
    \E names \in TagLists, author \in Users, title \in Titles, content \in Contents :
      \E failAt \in 0..(Len(names) + 4) :
        /\ db.nextQ <= MaxQ
        /\ Finish([NoCall EXCEPT !.op = "create", !.q = db.nextQ, !.u = author,
                                 !.names = names, !.title = title, !.content = content,
                                 !.failAt = failAt],
                  createQuestion(db, title, content, names, author, failAt))
        /\ UNCHANGED truthful

UpvoteQuestion ==
    \E q \in QIds, u \in Users, hu \in BOOLEAN, hd \in BOOLEAN, failAt \in 0..3 :
        /\ Finish([NoCall EXCEPT !.op = "upvote", !.q = q, !.u = u, !.hu = hu,
                                 !.hd = hd, !.failAt = failAt],
                  upvoteQuestion(db, q, u, hu, hd, failAt))
        /\ truthful' = (truthful /\ FlagsTrue(db, q, u, hu, hd))

DownvoteQuestion ==
    \E q \in QIds, u \in Users, hu \in BOOLEAN, hd \in BOOLEAN, failAt \in 0..3 :
        /\ Finish([NoCall EXCEPT !.op = "downvote", !.q = q, !.u = u, !.hu = hu,
                                 !.hd = hd, !.failAt = failAt],
                  downvoteQuestion(db, q, u, hu, hd, failAt))
        /\ truthful' = (truthful /\ FlagsTrue(db, q, u, hu, hd))

DeleteQuestion ==
    \E q \in QIds, failAt \in 0..6 :
        /\ Finish([NoCall EXCEPT !.op = "delete", !.q = q, !.failAt = failAt],
                  deleteQuestion(db, q, failAt))
        /\ UNCHANGED truthful

EditQuestion ==
    \E q \in QIds, title \in Titles, content \in Contents, failAt \in 0..2 :
        /\ Finish([NoCall EXCEPT !.op = "edit", !.q = q, !.title = title,
                                 !.content = content, !.failAt = failAt],
                  editQuestion(db, q, title, content, failAt))
        /\ UNCHANGED truthful

Next ==
    \/ CreateQuestion
    \/ UpvoteQuestion
    \/ DownvoteQuestion
    \/ DeleteQuestion
    \/ EditQuestion

Spec == Init /\ [][Next]_vars

\* ------------------------------------------------------------- SpecConc
\* Each call is a process; one action is one awaited store call together
\* with the synchronous code up to the next await. Store calls do not fail
\* here; a name that is no RegExp still throws. Titles and contents play no
\* part, so createQuestion is given "t1" and "c1".
Free(p) == procs[p].pc \in {"idle", "done"}

VoteInFlight(p) == procs[p].op \in {"upvote", "downvote"} /\ ~Free(p)

\* A slot that starts a new call is nobody's partner any more.
Forget(ps, p) == [x \in DOMAIN ps |-> IF ps[x].peer = p THEN [ps[x] EXCEPT !.peer = 0] ELSE ps[x]]

\* A vote call in flight by the same user on the same question that has not
\* written yet and whose flags, true when it started, are true of the store now.
Partners(p, q, u) ==
    {o \in DOMAIN procs \ {p} :
        /\ VoteInFlight(o) /\ procs[o].pc = "update"
        /\ procs[o].q = q /\ procs[o].u = u
        /\ procs[o].startTrue
        /\ q \in DOMAIN db.questions
        /\ FlagsTrue(db, q, u, procs[o].hu, procs[o].hd)}

StartCreate(p) ==
    \E names \in TagLists, author \in Users :
        /\ Free(p) /\ calls < MaxCalls
        /\ procs' = [Forget(procs, p) EXCEPT ![p] =
                        [Idle EXCEPT !.op = "create", !.pc = "create",
                                     !.names = names, !.author = author]]
        /\ calls' = calls + 1
        /\ UNCHANGED <<db, revalidated, last, truthful>>

\* lines 68-72
CreateStep(p) ==
    /\ procs[p].pc = "create"
    /\ db' = QuestionCreate(db, "t1", "c1", procs[p].author)
    /\ procs' = [procs EXCEPT ![p].q = db.nextQ, ![p].pc = "tag", ![p].i = 1]
    /\ UNCHANGED <<revalidated, last, calls, truthful>>

\* lines 75-82, one turn of the loop
TagStep(p) ==
    LET name == procs[p].names[procs[p].i]
    IN  /\ procs[p].pc = "tag"
        /\ IF ~ValidPattern(name)
           THEN /\ procs' = [procs EXCEPT ![p].pc = "done", ![p].outcome = "returned"]
                /\ UNCHANGED db
           ELSE /\ db' = UpsertTag(db, name, procs[p].q)
                /\ procs' = [procs EXCEPT
                      ![p].tagDocuments = Append(@, UpsertTagId(db, name)),
                      ![p].i = @ + 1,
                      ![p].pc = IF procs[p].i = Len(procs[p].names) THEN "pushTags" ELSE "tag"]
        /\ UNCHANGED <<revalidated, last, calls, truthful>>

\* lines 83-85
PushTagsStep(p) ==
    /\ procs[p].pc = "pushTags"
    /\ db' = PushTags(db, procs[p].q, procs[p].tagDocuments)
    /\ procs' = [procs EXCEPT ![p].pc = "interaction"]
    /\ UNCHANGED <<revalidated, last, calls, truthful>>

\* lines 87-92
InteractionStep(p) ==
    /\ procs[p].pc = "interaction"
    /\ db' = InteractionCreate(db, procs[p].author, procs[p].q, procs[p].tagDocuments)
    /\ procs' = [procs EXCEPT ![p].pc = "reputation"]
    /\ UNCHANGED <<revalidated, last, calls, truthful>>

\* lines 94-95
ReputationStep(p) ==
    /\ procs[p].pc = "reputation"
    /\ db' = IncReputation(db, procs[p].author, 5)
    /\ revalidated' = revalidated + 1
    /\ procs' = [procs EXCEPT ![p].pc = "done", ![p].outcome = "returned"]
    /\ UNCHANGED <<last, calls, truthful>>

StartVote(p) ==
    \E op \in {"upvote", "downvote"}, q \in QIds, u \in Users,
       hu \in BOOLEAN, hd \in BOOLEAN :
        /\ Free(p) /\ calls < MaxCalls
        /\ procs' = [Forget(procs, p) EXCEPT ![p] =
                        [Idle EXCEPT !.op = op, !.pc = "update", !.q = q, !.u = u,
                                     !.hu = hu, !.hd = hd,
                                     !.startTrue = (q \in DOMAIN db.questions
                                                    /\ FlagsTrue(db, q, u, hu, hd)),
                                     !.peer = IF q \in DOMAIN db.questions
                                                 /\ FlagsTrue(db, q, u, hu, hd)
                                                 /\ Partners(p, q, u) # {}
                                              THEN Min(Partners(p, q, u)) ELSE 0]]
        /\ calls' = calls + 1
        /\ UNCHANGED <<db, revalidated, last, truthful>>

\* lines 124-140 and 161-177
VoteUpdateStep(p) ==
    LET c == procs[p]
        update == IF c.op = "upvote" THEN UpvoteQuery(c.u, c.hu, c.hd)
                                     ELSE DownvoteQuery(c.u, c.hu, c.hd)
    IN  /\ VoteInFlight(p) /\ c.pc = "update"
        /\ db' = FindByIdAndUpdate(db, c.q, update)
        /\ procs' = IF c.q \in DOMAIN db.questions
                    THEN [procs EXCEPT ![p].pc = "voter",
                                       ![p].author = db.questions[c.q].author]
                    ELSE [procs EXCEPT ![p].pc = "done", ![p].outcome = "raised"]
        /\ UNCHANGED <<revalidated, last, calls, truthful>>

AlreadySame(c) == IF c.op = "upvote" THEN c.hu ELSE c.hd

\* lines 142-144 and 179-181
VoterStep(p) ==
    /\ VoteInFlight(p) /\ procs[p].pc = "voter"
    /\ db' = IncReputation(db, procs[p].u, VoterDelta(AlreadySame(procs[p])))
    /\ procs' = [procs EXCEPT ![p].pc = "author"]
    /\ UNCHANGED <<revalidated, last, calls, truthful>>

\* lines 146-149 and 182-185
AuthorStep(p) ==
    /\ VoteInFlight(p) /\ procs[p].pc = "author"
    /\ db' = IncReputation(db, procs[p].author, AuthorDelta(AlreadySame(procs[p])))
    /\ revalidated' = revalidated + 1
    /\ procs' = [procs EXCEPT ![p].pc = "done", ![p].outcome = "returned"]
    /\ UNCHANGED <<last, calls, truthful>>

NextConc ==
    \E p \in 1..MaxProcs :
        \/ StartCreate(p)
        \/ CreateStep(p)
        \/ TagStep(p)
        \/ PushTagsStep(p)
        \/ InteractionStep(p)
        \/ ReputationStep(p)
        \/ StartVote(p)
        \/ VoteUpdateStep(p)
        \/ VoterStep(p)
        \/ AuthorStep(p)

SpecConc == Init /\ [][NextConc]_vars

\* ------------------------------------------------------------- claims (Spec)
Upvotes(d, q) == Range(d.questions[q].upvotes)
Downvotes(d, q) == Range(d.questions[q].downvotes)

\* The last call was a vote that returned normally on a question that existed.
VoteReturned(op) ==
    /\ last.op = op
    /\ last.outcome = "returned"
    /\ last.q \in DOMAIN last.pre.questions

AuthorOfLast == last.pre.questions[last.q].author

\* C1: as long as every vote call carried flags equal to the stored
\* membership, no user is in both upvotes and downvotes of any question.
C1_VoteSetsDisjoint ==
    truthful => \A q \in DOMAIN db.questions : Upvotes(db, q) \cap Downvotes(db, q) = {}

\* A truthful switch has happened: the user moved from upvotes to downvotes.
C1_Witness ==
    /\ truthful
    /\ VoteReturned("downvote")
    /\ last.hu /\ ~last.hd
    /\ last.q \in DOMAIN db.questions
    /\ last.u \in Downvotes(db, last.q)

\* The membership part of C2: a reported upvote is removed; with neither
\* flag the user is in upvotes and the call added no second entry.
C2_Membership ==
    LET q == last.q
        u == last.u
        before == Count(last.pre.questions[q].upvotes, u)
        after == Count(db.questions[q].upvotes, u)
    IN  /\ last.hu => after = 0
        /\ (~last.hu /\ ~last.hd) => after = (IF before = 0 THEN 1 ELSE before)

C3_ToggleSymmetric ==
    /\ (VoteReturned("downvote") /\ last.hd /\ last.u \in Downvotes(last.pre, last.q))
          => last.u \notin Downvotes(db, last.q)
    /\ (VoteReturned("upvote") /\ last.hu /\ last.u \in Upvotes(last.pre, last.q))
          => last.u \notin Upvotes(db, last.q)

\* The case C4 is about: a switch reported with the opposite flag only, by a
\* user who is in the opposite set.
SwitchedUp ==
    /\ VoteReturned("upvote") /\ last.hd /\ ~last.hu
    /\ last.u \in Downvotes(last.pre, last.q)

SwitchedDown ==
    /\ VoteReturned("downvote") /\ last.hu /\ ~last.hd
    /\ last.u \in Upvotes(last.pre, last.q)

C4_Moved ==
    /\ SwitchedUp => (last.u \in Upvotes(db, last.q) /\ last.u \notin Downvotes(db, last.q))
    /\ SwitchedDown => (last.u \in Downvotes(db, last.q) /\ last.u \notin Upvotes(db, last.q))

SameNameIgnoringCase(a, b) ==
    /\ Len(a) = Len(b)
    /\ \A k \in 1..Len(a) : Lower(a[k]) = Lower(b[k])

\* C5: a createQuestion that ran to its end resolves names equal up to case
\* to one Tag document, and every Tag it resolved lists the new question once.
C5_CaseEqualNamesOneTagListedOnce ==
    (last.op = "create" /\ last.failedStep = 0) =>
        LET resolved == db.questions[last.q].tags
        IN  /\ \A i, j \in 1..Len(last.names) :
                  SameNameIgnoringCase(last.names[i], last.names[j])
                      => resolved[i] = resolved[j]
            /\ \A t \in Range(resolved) : Count(db.tags[t].questions, last.q) = 1

\* C7: deleteQuestion of an existing question with no store failure removes
\* the question, every Answer and Interaction of it and its reference in every
\* Tag, lowers the author's reputation by exactly 5 and leaves every other
\* user's reputation and every other question as they were.
C7_DeleteCascade ==
    (last.op = "delete" /\ last.failAt = 0 /\ last.q \in DOMAIN last.pre.questions) =>
        /\ last.q \notin DOMAIN db.questions
        /\ \A a \in db.answers : a.question # last.q
        /\ \A x \in db.interactions : x.question # last.q
        /\ \A t \in DOMAIN db.tags : last.q \notin Range(db.tags[t].questions)
        /\ db.reputation[AuthorOfLast] = last.pre.reputation[AuthorOfLast] - 5
        /\ \A u \in Users \ {AuthorOfLast} : db.reputation[u] = last.pre.reputation[u]
        /\ \A q \in DOMAIN last.pre.questions \ {last.q} :
              q \in DOMAIN db.questions /\ db.questions[q] = last.pre.questions[q]

\* A question listed by two Tag documents, with an answer or an interaction
\* of its own, has been deleted while another question stayed.
C7_Witness ==
    /\ last.op = "delete" /\ last.failAt = 0
    /\ last.q \in DOMAIN last.pre.questions
    /\ Cardinality({t \in DOMAIN last.pre.tags :
                        last.q \in Range(last.pre.tags[t].questions)}) >= 2
    /\ \E x \in last.pre.interactions : x.question = last.q
    /\ DOMAIN db.questions # {}

\* C8: a vote on a question id that resolves to no document raises an error
\* and changes no reputation, no vote set and sends no revalidation signal.
C8_VoteOnMissingQuestion ==
    (last.op \in {"upvote", "downvote"} /\ last.q \notin DOMAIN last.pre.questions) =>
        /\ last.outcome = "raised"
        /\ db = last.pre
        /\ revalidated = last.preSignals

\* A vote was cast on a question that had been deleted.
C8_Witness ==
    /\ last.op \in {"upvote", "downvote"}
    /\ last.failAt = 0
    /\ last.q \notin DOMAIN last.pre.questions
    /\ last.q < last.pre.nextQ

\* The store call at which the last call failed, worked out from its inputs
\* alone: the injected failure, a name that is no RegExp, a question that is
\* not there. 0 when nothing failed.
FirstOf(S) == IF S = {} THEN 0 ELSE Min(S)

ExpectedFailure ==
    LET inj == IF last.failAt = 0 THEN {} ELSE {last.failAt}
        absent == last.q \notin DOMAIN last.pre.questions
    IN  CASE last.op = "create" ->
               FirstOf(inj \cup {1 + i : i \in {k \in 1..Len(last.names) :
                                                  ~ValidPattern(last.names[k])}})
          [] last.op = "delete" -> FirstOf(inj \cup (IF absent THEN {6} ELSE {}))
          [] last.op = "edit" -> FirstOf(inj \cup (IF absent THEN {2} ELSE {}))
          [] OTHER -> 0

\* What stays of a createQuestion that failed at store call k.
CreateStays(k) ==
    LET q == last.q
        n == Len(last.names)
    IN  /\ k = 1 => db = last.pre
        /\ k > 1 =>
              /\ q \in DOMAIN db.questions
              /\ db.questions[q].author = last.u
              \* every name before the failing one was upserted
              /\ \A i \in 1..n : i + 1 < k =>
                    \E t \in DOMAIN db.tags : q \in Range(db.tags[t].questions)
              \* the tags were attached only if the failure came after that call
              /\ (db.questions[q].tags # <<>>) => k > n + 2
              /\ (k > n + 2) => Len(db.questions[q].tags) = n
              /\ (\E x \in db.interactions : x.question = q) <=> k > n + 3

\* What stays of a deleteQuestion that failed at store call k.
DeleteStays(k) ==
    LET q == last.q
    IN  /\ (db.questions = last.pre.questions) <=> (k <= 2 \/ q \notin DOMAIN last.pre.questions)
        /\ k > 2 => q \notin DOMAIN db.questions
        /\ db.answers = (IF k > 3 THEN {a \in last.pre.answers : a.question # q}
                                 ELSE last.pre.answers)
        /\ db.interactions = (IF k > 4 THEN {x \in last.pre.interactions : x.question # q}
                                      ELSE last.pre.interactions)
        /\ k <= 5 => db.tags = last.pre.tags
        /\ k > 5 => \A t \in DOMAIN db.tags : q \notin Range(db.tags[t].questions)

\* C9: createQuestion, editQuestion and deleteQuestion always return normally;
\* when a step fails, the writes made before it stay, and nothing after it
\* runs: no reputation change, no revalidation signal.
C9_SwallowPolicy ==
    last.op \in {"create", "edit", "delete"} =>
        /\ last.outcome = "returned"
        /\ ExpectedFailure # 0 =>
              /\ db.reputation = last.pre.reputation
              /\ revalidated = last.preSignals
              /\ last.op = "create" => CreateStays(ExpectedFailure)
              /\ last.op = "delete" => DeleteStays(ExpectedFailure)
              /\ last.op = "edit" => db = last.pre
        /\ ExpectedFailure = 0 => revalidated = last.preSignals + 1

\* A createQuestion failed in its tag loop after one upsert, and left the
\* question and that tag behind.
C9_Witness ==
    /\ last.op = "create"
    /\ ExpectedFailure = 3
    /\ last.q \in DOMAIN db.questions
    /\ \E t \in DOMAIN db.tags : last.q \in Range(db.tags[t].questions)
    /\ db # last.pre

\* ------------------------------------------------------------- claims (SpecConc)
\* C6: no two Tag documents have names that are equal ignoring letter case,
\* however createQuestion calls interleave.
C6_TagNamesUnique ==
    \A s, t \in DOMAIN db.tags :
        s # t => ~SameNameIgnoringCase(db.tags[s].name, db.tags[t].name)

\* C10: two concurrent votes of one user on one question, both carrying the
\* flags that were true before either started, leave the user in at most one
\* of the two lists and at most once in each.
C10_ConcurrentVotesConsistent ==
    \A p \in DOMAIN procs :
        LET c == procs[p]
        IN  (/\ c.peer # 0
             /\ c.pc = "done" /\ procs[c.peer].pc = "done"
             /\ c.q \in DOMAIN db.questions) =>
                /\ ~(c.u \in Upvotes(db, c.q) /\ c.u \in Downvotes(db, c.q))
                /\ Count(db.questions[c.q].upvotes, c.u) <= 1
                /\ Count(db.questions[c.q].downvotes, c.u) <= 1

====
